---- MODULE Spec2Model ----
(***************************************************************************)
(* SmartSorter: the classifier (smart_sorter/categorizer.py), the planner  *)
(* and applier (smart_sorter/main.py), the plan editor and the GUI event   *)
(* loop (SmartSorter/gui.py).                                              *)
(*                                                                         *)
(* Text is a sequence of one-character strings.  The Cyrillic category     *)
(* keys of config.py are written letter for letter in Latin (one Latin     *)
(* letter per Cyrillic letter, so lengths and substrings are preserved):   *)
(*   k n i g p r o e z d y u m t b v a q c s f w h j  stand for            *)
(*   к н и г п р о е з д ы у м т б в а я ц с ф ю ч ь                       *)
(***************************************************************************)
EXTENDS Integers, Sequences, FiniteSets, TLC

VARIABLES
    \* classify() exercised on its own
    replyParts,     \* the reply text of the inference endpoint, in segments
    requestOutcome, \* "pending", "ok" or the way the request failed
    returned,       \* the value classify() returned, or NoValue
    \* the file system and the fields of the main window
    src_dir,        \* values['src']
    tgt_dir,        \* values['tgt']
    fpath,          \* file -> the path it is at
    ftext,          \* file -> the text its extractor yields
    dirs,           \* the directories that exist under the target root
    runLimit,       \* how often the user presses the analysis button
    model_value,    \* values['model']: what the model combo holds
    model_values,   \* the list of the model combo
    model_cfg,      \* the file last_llm_model.json: [exists, text]
    lastSaved,      \* history: the model of the analysis started last
    starts,         \* how often the program was started
    loading,        \* the _load_models threads that have not ended
    refreshes,      \* how often the models were refreshed
    \* GUI.run and its worker threads
    mainpc,         \* "loop": in window.read(); "preview": in create_preview_window
    queue,          \* events written by write_event_value, not yet read
    sorting_plan,   \* self.sorting_plan
    bar,            \* the progress bar: [value, visible]
    an,             \* run -> the run_analysis thread (SmartSorter.sort)
    ap,             \* index -> the run_apply thread (SmartSorter.apply_sort)
    \* create_preview_window
    original_plan,
    rich_data,
    table_values,   \* what the table widget shows
    sort_state,
    final_plan,     \* what create_preview_window returned last
    \* history, read by the properties only
    previewOf,      \* the run whose plan the preview window shows
    edits,          \* edit events handled by the open preview window
    confirmed,      \* original index -> the category last confirmed for the entry
    restored,       \* original indices of the entries un-excluded by the toggle
    lastEdit,       \* the last menu pick: the row shown and the entry changed
    cancelled,      \* runs whose plan was cancelled in the preview window
    committed,      \* runs whose plan was committed in the preview window
    moveLog,        \* the moves made: [file, run, afterCancel]
    analysisLog,    \* run -> per analysed file [path, text, calls, failed, category]
    globbed         \* run -> what glob("**/*") enumerated, in order

clsVars == <<replyParts, requestOutcome, returned>>
envVars == <<src_dir, tgt_dir, ftext, runLimit>>
cfgVars == <<model_value, model_values, model_cfg, lastSaved, starts, loading, refreshes>>
fsVars == <<fpath, dirs>>
guiVars == <<mainpc, queue, sorting_plan, bar>>
thrVars == <<an, ap>>
pvVars == <<original_plan, rich_data, table_values, sort_state, final_plan,
           previewOf, edits, confirmed, restored, lastEdit>>
histVars == <<cancelled, committed, moveLog, analysisLog, globbed>>
vars == <<clsVars, envVars, cfgVars, fsVars, guiVars, thrVars, pvVars, histVars>>

NoValue == "None"

(***************************************************************************)
(* config.py                                                               *)
(***************************************************************************)
CATEGORIES ==
    << [key |-> "Knigi",                 folder |-> "Books"],     \* Книги
       [key |-> "Proezdnye dokumenty",   folder |-> "Travel"],    \* Проездные документы
       [key |-> "Bronirovaniq",          folder |-> "Booking"],   \* Бронирования
       [key |-> "Medicinskie dokumenty", folder |-> "Medical"],   \* Медицинские документы
       [key |-> "Finansovye dokumenty",  folder |-> "Finance"],   \* Финансовые документы
       [key |-> "Wridiheskie dokumenty", folder |-> "Legal"],     \* Юридические документы
       [key |-> "Nauhnye statji",        folder |-> "Science"],   \* Научные статьи
       [key |-> "Biznes-dokumenty",      folder |-> "Business"],  \* Бизнес-документы
       [key |-> "Prohee",                folder |-> "Other"] >>   \* Прочее

\* The characters of each category key.
KeyChars(k) ==
    CASE k = "Knigi" -> <<"K", "n", "i", "g", "i">>
      [] k = "Proezdnye dokumenty" ->
            <<"P", "r", "o", "e", "z", "d", "n", "y", "e", " ",
              "d", "o", "k", "u", "m", "e", "n", "t", "y">>
      [] k = "Bronirovaniq" ->
            <<"B", "r", "o", "n", "i", "r", "o", "v", "a", "n", "i", "q">>
      [] k = "Medicinskie dokumenty" ->
            <<"M", "e", "d", "i", "c", "i", "n", "s", "k", "i", "e", " ",
              "d", "o", "k", "u", "m", "e", "n", "t", "y">>
      [] k = "Finansovye dokumenty" ->
            <<"F", "i", "n", "a", "n", "s", "o", "v", "y", "e", " ",
              "d", "o", "k", "u", "m", "e", "n", "t", "y">>
      [] k = "Wridiheskie dokumenty" ->
            <<"W", "r", "i", "d", "i", "h", "e", "s", "k", "i", "e", " ",
              "d", "o", "k", "u", "m", "e", "n", "t", "y">>
      [] k = "Nauhnye statji" ->
            <<"N", "a", "u", "h", "n", "y", "e", " ", "s", "t", "a", "t", "j", "i">>
      [] k = "Biznes-dokumenty" ->
            <<"B", "i", "z", "n", "e", "s", "-", "d", "o", "k", "u", "m", "e", "n", "t", "y">>
      [] k = "Prohee" -> <<"P", "r", "o", "h", "e", "e">>

CategoryKeys == [i \in 1..Len(CATEGORIES) |-> CATEGORIES[i].key]
CategoryKeySet == {CATEGORIES[i].key : i \in 1..Len(CATEGORIES)}
CategoryFolders == {CATEGORIES[i].folder : i \in 1..Len(CATEGORIES)}

\* dict.get(name, default)
CategoriesGet(name, default) ==
    IF \E i \in 1..Len(CATEGORIES) : CATEGORIES[i].key = name
    THEN CATEGORIES[CHOOSE i \in 1..Len(CATEGORIES) : CATEGORIES[i].key = name].folder
    ELSE default

\* config.py line 15
DEFAULT_MODEL == "phi4-mini"

\* gui.py: the values of the model combo that name no model
NoModel == ""
\* line 260: the only item of the combo until the models are loaded
LoadingText == "Zagruzka..."          \* Загрузка...

(***************************************************************************)
(* str methods used by the code                                            *)
(***************************************************************************)
UpperLetters == <<"A", "B", "C", "D", "E", "F", "G", "H", "I", "J", "K", "L", "M",
                  "N", "O", "P", "Q", "R", "S", "T", "U", "V", "W", "X", "Y", "Z">>
LowerLetters == <<"a", "b", "c", "d", "e", "f", "g", "h", "i", "j", "k", "l", "m",
                  "n", "o", "p", "q", "r", "s", "t", "u", "v", "w", "x", "y", "z">>

LowerChar(c) ==
    IF \E i \in 1..Len(UpperLetters) : UpperLetters[i] = c
    THEN LowerLetters[CHOOSE i \in 1..Len(UpperLetters) : UpperLetters[i] = c]
    ELSE c

\* str.lower()
StrLower(s) == [i \in 1..Len(s) |-> LowerChar(s[i])]

IsSpace(c) == c \in {" ", "\n"}

\* str.strip()
StrStrip(s) ==
    IF \A i \in 1..Len(s) : IsSpace(s[i]) THEN <<>>
    ELSE LET first == CHOOSE i \in 1..Len(s) :
                          ~IsSpace(s[i]) /\ \A j \in 1..(i - 1) : IsSpace(s[j])
             last  == CHOOSE i \in 1..Len(s) :
                          ~IsSpace(s[i]) /\ \A j \in (i + 1)..Len(s) : IsSpace(s[j])
         IN SubSeq(s, first, last)

\* str.replace(c, "") for a one-character c
StrRemove(s, c) == SelectSeq(s, LAMBDA x : x # c)

\* the positions at which sub occurs in s
Occurrences(sub, s) ==
    {i \in 1..(Len(s) - Len(sub) + 1) : SubSeq(s, i, i + Len(sub) - 1) = sub}

\* sub in s
StrContains(sub, s) == Occurrences(sub, s) # {}

Min(S) == CHOOSE x \in S : \A y \in S : x <= y
Max(S) == CHOOSE x \in S : \A y \in S : x >= y

\* s.split(sep, 1)[-1] when sep occurs in s: what follows the first occurrence
SplitOnceLast(s, sep) ==
    LET at == Min(Occurrences(sep, s))
    IN SubSeq(s, at + Len(sep), Len(s))

(***************************************************************************)
(* categorizer.py: Categorizer.classify, from the reply on                 *)
(***************************************************************************)
think_end_tag == <<"<", "/", "t", "h", "i", "n", "k", ">">>

CatchAll == "Prohee"

\* line 40: the content of the reply, .strip().replace("'", "")
ReplyContent(body) == StrRemove(StrStrip(body), "'")

\* faulty variant: the reasoning segment is kept
StripThinkKept(content) == content

\* lines 51-53: drop the reasoning segment
StripThink(content) ==
    IF StrContains(think_end_tag, content)
    THEN SplitOnceLast(content, think_end_tag)
    ELSE content

\* faulty variant: the reply is compared as it is spelt
ContentNotLowered(content) ==
    StrRemove(StrRemove(StrStrip(content), "'"), "\"")

\* line 56
ContentLower(content) ==
    StrRemove(StrRemove(StrStrip(StrLower(content)), "'"), "\"")

\* lines 59-61: the first key equal to the folded reply, if any
ExactMatches(content_lower) ==
    SelectSeq(CategoryKeys, LAMBDA k : StrLower(KeyChars(k)) = content_lower)

\* lines 65-68
FoundCategories(content_lower) ==
    SelectSeq(CategoryKeys, LAMBDA k : StrContains(StrLower(KeyChars(k)), content_lower))

\* faulty variant: the first key found is taken
FirstFound(found) == found[1]

\* max(found, key=len): the first element of greatest length
MaxByLen(found) ==
    LET longest == Max({Len(KeyChars(found[i])) : i \in 1..Len(found)})
        at == Min({i \in 1..Len(found) : Len(KeyChars(found[i])) = longest})
    IN found[at]

\* faulty variant: an unexpected reply is returned as it is
NormalizeReplyEcho(body) ==
    LET content_lower == ContentLower(StripThink(ReplyContent(body)))
        exact == ExactMatches(content_lower)
        found == FoundCategories(content_lower)
    IN IF Len(exact) > 0 THEN exact[1]
       ELSE IF Len(found) = 1 THEN found[1]
       ELSE IF Len(found) > 1 THEN MaxByLen(found)
       ELSE "unexpected"

\* lines 49-81
NormalizeReply(body) ==
    LET content_lower == ContentLower(StripThink(ReplyContent(body)))
        exact == ExactMatches(content_lower)
        found == FoundCategories(content_lower)
    IN IF Len(exact) > 0 THEN exact[1]
       ELSE IF Len(found) = 1 THEN found[1]
       ELSE IF Len(found) > 1 THEN MaxByLen(found)
       ELSE CatchAll

\* The ways requests.post / raise_for_status / response.json() end.
RequestOutcomes == {"ok", "connection_error", "timeout", "http_error", "malformed_body"}

\* faulty variant: no exception handler around the request
ClassifyUnguarded(outcome, body) ==
    IF outcome = "ok" THEN NormalizeReply(body) ELSE "raised"

\* lines 26-47 and on: classify(text) given how the request ended
Classify(outcome, body) ==
    IF outcome = "ok" THEN NormalizeReply(body) ELSE CatchAll

(***************************************************************************)
(* The replies the classifier is exercised with: up to MaxSegs segments.   *)
(***************************************************************************)
MaxSegs == 3

Apostrophe == "'"
DoubleQuote == "\""

ReplySegments ==
    { KeyChars("Knigi"),
      KeyChars("Nauhnye statji"),
      KeyChars("Medicinskie dokumenty"),
      KeyChars("Wridiheskie dokumenty"),
      KeyChars("Prohee"),
      <<"K", "N", "I", "G", "I">>,
      think_end_tag,
      <<"<", "/", "t", "h", Apostrophe, "i", "n", "k", ">">>,
      <<" ">>, <<Apostrophe>>, <<DoubleQuote>>, <<"x">> }


(***************************************************************************)
(* Paths.  A directory is the sequence of its components; a file path is   *)
(* [dir, stem, ext] with stem and ext as text: Path.name is stem \o ext    *)
(* and Path.suffix is ext.                                                 *)
(***************************************************************************)
MaxRuns == 2

Runs == 1..MaxRuns

IsPrefix(p, q) == Len(p) <= Len(q) /\ SubSeq(q, 1, Len(p)) = p

\* Path.parent
DirParent(d) == SubSeq(d, 1, Len(d) - 1)
\* Path.name of a directory
DirName(d) == d[Len(d)]
\* dir / name
DirJoin(d, name) == Append(d, name)
\* Path.name of a file
FileName(p) == p.stem \o p.ext

\* config.py line 16
SUPPORTED_FORMATS ==
    << <<".", "p", "d", "f">>, <<".", "d", "o", "c", "x">>, <<".", "x", "l", "s", "x">>,
       <<".", "p", "n", "g">>, <<".", "j", "p", "g">>, <<".", "j", "p", "e", "g">> >>

\* faulty variant: the suffix compared as it is spelt
IsSupportedCaseSensitive(p) ==
    \E i \in 1..Len(SUPPORTED_FORMATS) : SUPPORTED_FORMATS[i] = p.ext

\* main.py line 37: f.suffix.lower() in SUPPORTED_FORMATS
IsSupported(p) ==
    \E i \in 1..Len(SUPPORTED_FORMATS) : SUPPORTED_FORMATS[i] = StrLower(p.ext)

\* the files of the model: where each is when the program starts
SourceRoot == <<"D">>
InitialPath ==
    << [dir |-> <<"D", "a">>, stem |-> <<"a">>, ext |-> <<".", "p", "d", "f">>],
       [dir |-> <<"D", "b">>, stem |-> <<"a">>, ext |-> <<".", "p", "d", "f">>],
       [dir |-> <<"D", "b">>, stem |-> <<"b">>, ext |-> <<".", "P", "N", "G">>],
       [dir |-> <<"D", "a">>, stem |-> <<"b">>, ext |-> <<".", "t", "x", "t">>] >>
FileSize == <<2048, 10, 10, 1536>>
Files == DOMAIN InitialPath

\* what an extractor can yield: nothing, white space only, text
ExtractedTexts == { <<>>, <<"\n", "\n">>, <<" ", "t", " ">> }

NoFile == 0
\* the file at path p, or NoFile
FileAt(fp, p) == IF \E f \in DOMAIN fp : fp[f] = p
                 THEN CHOOSE f \in DOMAIN fp : fp[f] = p
                 ELSE NoFile

\* extractor.py lines 77-83 (every extractor returns "" on an unreadable file)
Extract(fp, p) ==
    IF FileAt(fp, p) # NoFile /\ IsSupported(p) THEN ftext[FileAt(fp, p)] ELSE <<>>

\* shutil.move(src, dst): [ok, fpath].  It raises when src does not exist
\* and when dst is a directory that already holds an entry of src's name;
\* when dst is no directory the file is renamed to dst.
ShutilMove(fp, ds, src, dst) ==
    LET f == FileAt(fp, src)
        real_dst == IF dst \in ds
                    THEN [dir |-> dst, stem |-> src.stem, ext |-> src.ext]
                    ELSE [dir |-> DirParent(dst), stem |-> <<DirName(dst)>>, ext |-> <<>>]
    IN IF f = NoFile THEN [ok |-> FALSE, fpath |-> fp]
       ELSE IF FileAt(fp, real_dst) # NoFile THEN [ok |-> FALSE, fpath |-> fp]
       ELSE [ok |-> TRUE, fpath |-> [fp EXCEPT ![f] = real_dst]]

(***************************************************************************)
(* Events in the window's queue: write_event_value(key, value)             *)
(***************************************************************************)
Event(key, done, total) == [ev |-> key, done |-> done, total |-> total]

\* faulty variant: the numbers are sent with a log-only message too
ProgressEventWithNumbers(done, total, log_only) ==
    Event("-PROGRESS-", done, total)

\* main.py lines 90-96: _update_progress with a window
ProgressEvent(done, total, log_only) ==
    IF log_only THEN Event("-PROGRESS-", -1, -1) ELSE Event("-PROGRESS-", done, total)

\* what sort() has sent when it returns a plan for n files (lines 28, 40, 47, 63, 65)
SortNotifications(n) ==
    <<ProgressEvent(0, 100, TRUE), ProgressEvent(0, n, TRUE)>>
    \o [j \in 1..(2 * n) |-> ProgressEvent(j \div 2, n, FALSE)]
    \o <<ProgressEvent(0, 100, TRUE)>>

(***************************************************************************)
(* main.py: SmartSorter.sort, run by the run_analysis thread of run r      *)
(***************************************************************************)
CategoryDirs(tgt) == {DirJoin(tgt, CATEGORIES[i].folder) : i \in 1..Len(CATEGORIES)}

RECURSIVE Perms(_)
Perms(S) ==
    IF S = {} THEN {<<>>}
    ELSE UNION {{<<x>> \o t : t \in Perms(S \ {x})} : x \in S}

\* Path.glob("**/*") filtered by is_file(): every file under the root, once.
\* The scan lists a directory's entries together, and a directory before its
\* sub-directories; the order is otherwise the file system's.
GlobOrders(fp, root) ==
    {order \in Perms({f \in DOMAIN fp : IsPrefix(root, fp[f].dir)}) :
        /\ \A i, j, k \in 1..Len(order) :
              (i < j /\ j < k /\ fp[order[i]].dir = fp[order[k]].dir)
                  => fp[order[j]].dir = fp[order[i]].dir
        /\ \A i, j \in 1..Len(order) :
              (i < j /\ IsPrefix(fp[order[j]].dir, fp[order[i]].dir))
                  => fp[order[j]].dir = fp[order[i]].dir}

\* how the requests to the endpoint end during planning
PlanningCalls ==
    { [outcome |-> "ok", body |-> KeyChars("Knigi")],
      [outcome |-> "ok", body |-> <<"x">>],
      [outcome |-> "connection_error", body |-> <<>>],
      [outcome |-> "timeout", body |-> <<>>],
      [outcome |-> "http_error", body |-> <<>>],
      [outcome |-> "malformed_body", body |-> <<>>] }

NewThread == [pc |-> "unstarted", model |-> NoValue, files_to_sort |-> <<>>, i |-> 0,
              sorting_plan |-> <<>>, sent |-> <<>>]

\* line 32: the category folders at which mkdir may raise OSError (the
\* target root cannot be written to, or a file has the folder's name): the
\* folders before it are made, sort() ends by the exception
MkdirFailures == {1, Len(CATEGORIES)}

\* faulty variant: the category folders are not made
SortBeginWithoutFolders(r) ==
    /\ an[r].pc = "begin"
    /\ queue' = Append(queue, ProgressEvent(0, 100, TRUE))
    /\ an' = [an EXCEPT ![r].pc = "glob",
                         ![r].sent = Append(@, ProgressEvent(0, 100, TRUE))]
    /\ UNCHANGED <<clsVars, envVars, cfgVars, fsVars, mainpc, sorting_plan, bar, ap, pvVars,
                   histVars>>

\* lines 28-32: the announcement and the category folders
SortBegin(r) ==
    /\ an[r].pc = "begin"
    /\ queue' = Append(queue, ProgressEvent(0, 100, TRUE))
    /\ \/ /\ dirs' = dirs \cup CategoryDirs(tgt_dir)
          /\ an' = [an EXCEPT ![r].pc = "glob",
                               ![r].sent = Append(@, ProgressEvent(0, 100, TRUE))]
       \/ \E k \in MkdirFailures :
             /\ DirJoin(tgt_dir, CATEGORIES[k].folder) \notin dirs
             /\ dirs' = dirs \cup {DirJoin(tgt_dir, CATEGORIES[j].folder) : j \in 1..(k - 1)}
             /\ an' = [an EXCEPT ![r].pc = "raised",
                                  ![r].sent = Append(@, ProgressEvent(0, 100, TRUE))]
    /\ UNCHANGED <<clsVars, envVars, cfgVars, fpath, mainpc, sorting_plan, bar, ap, pvVars, histVars>>

\* lines 35-40: the list of files to sort
SortGlob(r) ==
    /\ an[r].pc = "glob"
    /\ \E order \in GlobOrders(fpath, src_dir) :
          LET found == [i \in 1..Len(order) |-> fpath[order[i]]]
              files_to_sort == SelectSeq(found, IsSupported)
          IN /\ an' = [an EXCEPT ![r].files_to_sort = files_to_sort,
                                 ![r].pc = IF Len(files_to_sort) > 0 THEN "announce" ELSE "end",
                                 ![r].sent = Append(@, ProgressEvent(0, Len(files_to_sort), TRUE))]
             /\ globbed' = [globbed EXCEPT ![r] = found]
    /\ queue' = Append(queue, ProgressEvent(0, Len(an'[r].files_to_sort), TRUE))
    /\ UNCHANGED <<clsVars, envVars, cfgVars, fsVars, mainpc, sorting_plan, bar, ap, pvVars,
                   cancelled, committed, moveLog, analysisLog>>

\* lines 45-47: the top of the loop body
SortAnnounce(r) ==
    /\ an[r].pc = "announce"
    /\ queue' = Append(queue, ProgressEvent(an[r].i, Len(an[r].files_to_sort), FALSE))
    /\ an' = [an EXCEPT ![r].pc = "analyze",
                         ![r].sent = Append(@, ProgressEvent(an[r].i, Len(an[r].files_to_sort), FALSE))]
    /\ UNCHANGED <<clsVars, envVars, cfgVars, fsVars, mainpc, sorting_plan, bar, ap, pvVars, histVars>>

\* faulty variant: only the empty text counts as no text
TextIsEmpty(text) == text = <<>>

\* line 51: not text or not text.strip()
TextIsBlank(text) == text = <<>> \/ StrStrip(text) = <<>>

\* faulty variant: the key of the category is taken for its folder
PlanEntryKeyAsFolder(file_path, category_name) ==
    [src |-> file_path, dst |-> DirJoin(tgt_dir, category_name)]

\* lines 58-61: the plan entry of a file classified as category_name
PlanEntry(file_path, category_name) ==
    [src |-> file_path, dst |-> DirJoin(tgt_dir, CategoriesGet(category_name, "Other"))]

\* faulty variant: the file is moved at once, while the plan is built
SortAnalyzeMoving(r) ==
    /\ an[r].pc = "analyze"
    /\ LET file_path == an[r].files_to_sort[an[r].i + 1]
           text == Extract(fpath, file_path)
           total_files == Len(an[r].files_to_sort)
       IN \E call \in PlanningCalls :
            LET category_name == IF TextIsBlank(text) THEN CatchAll
                                 ELSE Classify(call.outcome, call.body)
                entry == PlanEntry(file_path, category_name)
            IN /\ an' = [an EXCEPT
                    ![r].sorting_plan = Append(@, entry),
                    ![r].i = @ + 1,
                    ![r].sent = Append(@, ProgressEvent(an[r].i + 1, total_files, FALSE)),
                    ![r].pc = IF an[r].i + 1 < total_files THEN "announce" ELSE "end"]
               /\ fpath' = ShutilMove(fpath, dirs, entry.src, entry.dst).fpath
               /\ analysisLog' = [analysisLog EXCEPT ![r] = Append(@,
                    [path |-> file_path, text |-> text,
                     calls |-> IF TextIsBlank(text) THEN 0 ELSE 1,
                     failed |-> ~TextIsBlank(text) /\ call.outcome # "ok",
                     category |-> category_name])]
               /\ queue' = Append(queue, ProgressEvent(an[r].i + 1, total_files, FALSE))
    /\ UNCHANGED <<clsVars, envVars, cfgVars, dirs, mainpc, sorting_plan, bar, ap, pvVars,
                   cancelled, committed, moveLog, globbed>>

\* lines 49-63: extract, classify, append to the plan, report
SortAnalyze(r) ==
    /\ an[r].pc = "analyze"
    /\ LET file_path == an[r].files_to_sort[an[r].i + 1]
           text == Extract(fpath, file_path)
           total_files == Len(an[r].files_to_sort)
       IN \E call \in PlanningCalls :
            LET category_name == IF TextIsBlank(text) THEN CatchAll
                                 ELSE Classify(call.outcome, call.body)
            IN /\ an' = [an EXCEPT
                    ![r].sorting_plan = Append(@, PlanEntry(file_path, category_name)),
                    ![r].i = @ + 1,
                    ![r].sent = Append(@, ProgressEvent(an[r].i + 1, total_files, FALSE)),
                    ![r].pc = IF an[r].i + 1 < total_files THEN "announce" ELSE "end"]
               /\ analysisLog' = [analysisLog EXCEPT ![r] = Append(@,
                    [path |-> file_path, text |-> text,
                     calls |-> IF TextIsBlank(text) THEN 0 ELSE 1,
                     failed |-> ~TextIsBlank(text) /\ call.outcome # "ok",
                     category |-> category_name])]
               /\ queue' = Append(queue, ProgressEvent(an[r].i + 1, total_files, FALSE))
    /\ UNCHANGED <<clsVars, envVars, cfgVars, fsVars, mainpc, sorting_plan, bar, ap, pvVars,
                   cancelled, committed, moveLog, globbed>>

\* lines 65-66, then gui.py lines 323-324: the plan is stored and announced
SortEnd(r) ==
    /\ an[r].pc = "end"
    /\ sorting_plan' = [run |-> r, entries |-> an[r].sorting_plan]
    /\ queue' = queue \o <<ProgressEvent(0, 100, TRUE), Event("-ANALYSIS_DONE-", 0, 0)>>
    /\ an' = [an EXCEPT ![r].pc = "done",
                         ![r].sent = Append(@, ProgressEvent(0, 100, TRUE))]
    /\ UNCHANGED <<clsVars, envVars, cfgVars, fsVars, mainpc, bar, ap, pvVars, histVars>>

(***************************************************************************)
(* main.py: SmartSorter.apply_sort, run by the run_apply thread a          *)
(***************************************************************************)
NewApply == [pc |-> "unstarted", sorting_plan |-> <<>>, i |-> 0, run |-> 0,
             afterCancel |-> FALSE, failed |-> {}, sent |-> <<>>]

\* lines 72-73
ApplyBegin(a) ==
    /\ ap[a].pc = "begin"
    /\ queue' = Append(queue, ProgressEvent(0, Len(ap[a].sorting_plan), TRUE))
    /\ ap' = [ap EXCEPT ![a].pc = IF Len(ap[a].sorting_plan) > 0 THEN "announce" ELSE "end",
                         ![a].sent = Append(@, ProgressEvent(0, Len(ap[a].sorting_plan), TRUE))]
    /\ UNCHANGED <<clsVars, envVars, cfgVars, fsVars, mainpc, sorting_plan, bar, an, pvVars, histVars>>

\* lines 75-78
ApplyAnnounce(a) ==
    /\ ap[a].pc = "announce"
    /\ queue' = Append(queue, ProgressEvent(ap[a].i, Len(ap[a].sorting_plan), FALSE))
    /\ ap' = [ap EXCEPT ![a].pc = "move",
                         ![a].sent = Append(@, ProgressEvent(ap[a].i, Len(ap[a].sorting_plan), FALSE))]
    /\ UNCHANGED <<clsVars, envVars, cfgVars, fsVars, mainpc, sorting_plan, bar, an, pvVars, histVars>>

\* faulty variant: no exception handler: a failed move ends apply_sort
ApplyMoveUnguarded(a) ==
    /\ ap[a].pc = "move"
    /\ LET pair == ap[a].sorting_plan[ap[a].i + 1]
           total_files == Len(ap[a].sorting_plan)
           res == ShutilMove(fpath, dirs, pair.src, pair.dst)
       IN /\ fpath' = res.fpath
          /\ ap' = IF res.ok
                   THEN [ap EXCEPT
                           ![a].i = @ + 1,
                           ![a].sent = Append(@, ProgressEvent(ap[a].i + 1, total_files, FALSE)),
                           ![a].pc = IF ap[a].i + 1 < total_files THEN "announce" ELSE "end"]
                   ELSE [ap EXCEPT ![a].pc = "raised"]
          /\ moveLog' = IF res.ok
                        THEN moveLog \cup {[file |-> FileAt(fpath, pair.src),
                                            run |-> ap[a].run,
                                            afterCancel |-> ap[a].afterCancel]}
                        ELSE moveLog
          /\ queue' = IF res.ok
                      THEN Append(queue, ProgressEvent(ap[a].i + 1, total_files, FALSE))
                      ELSE queue
    /\ UNCHANGED <<clsVars, envVars, cfgVars, dirs, mainpc, sorting_plan, bar, an, pvVars,
                   cancelled, committed, analysisLog, globbed>>

\* lines 80-86: the move, its exception handler, the report
ApplyMove(a) ==
    /\ ap[a].pc = "move"
    /\ LET pair == ap[a].sorting_plan[ap[a].i + 1]
           total_files == Len(ap[a].sorting_plan)
           res == ShutilMove(fpath, dirs, pair.src, pair.dst)
       IN /\ fpath' = res.fpath
          /\ ap' = [ap EXCEPT
                ![a].i = @ + 1,
                ![a].sent = Append(@, ProgressEvent(ap[a].i + 1, total_files, FALSE)),
                ![a].failed = IF res.ok THEN @ ELSE @ \cup {ap[a].i + 1},
                ![a].pc = IF ap[a].i + 1 < total_files THEN "announce" ELSE "end"]
          /\ moveLog' = IF res.ok
                        THEN moveLog \cup {[file |-> FileAt(fpath, pair.src),
                                            run |-> ap[a].run,
                                            afterCancel |-> ap[a].afterCancel]}
                        ELSE moveLog
          /\ queue' = Append(queue, ProgressEvent(ap[a].i + 1, total_files, FALSE))
    /\ UNCHANGED <<clsVars, envVars, cfgVars, dirs, mainpc, sorting_plan, bar, an, pvVars,
                   cancelled, committed, analysisLog, globbed>>

\* line 88, then gui.py line 347
ApplyEnd(a) ==
    /\ ap[a].pc = "end"
    /\ queue' = queue \o <<ProgressEvent(0, 100, TRUE), Event("-APPLY_DONE-", 0, 0)>>
    /\ ap' = [ap EXCEPT ![a].pc = "done",
                         ![a].sent = Append(@, ProgressEvent(0, 100, TRUE))]
    /\ UNCHANGED <<clsVars, envVars, cfgVars, fsVars, mainpc, sorting_plan, bar, an, pvVars, histVars>>

(***************************************************************************)
(* gui.py: create_preview_window                                           *)
(***************************************************************************)
_EXCLUDED_KEY == "Iskljwhitj iz sortirovki"     \* Исключить из сортировки
_EXCLUDED_DISPLAY_TEXT == "--- ISKLWHENO ---"    \* --- ИСКЛЮЧЕНО ---

\* the characters of a value of the category column
CategoryChars(c) ==
    IF c = _EXCLUDED_DISPLAY_TEXT
    THEN <<"-", "-", "-", " ", "I", "S", "K", "L", "W", "H", "E", "N", "O", " ", "-", "-", "-">>
    ELSE KeyChars(c)

\* lines 102-110: human_readable_size, as [hundredths of the unit, unit]
Units == <<"B", "KB", "MB", "GB", "TB">>
RECURSIVE ScaleSize(_, _, _)
ScaleSize(num, den, u) ==
    IF num < 1024 * den \/ u = Len(Units)
    THEN [hundredths |-> (200 * num + den) \div (2 * den), unit |-> Units[u]]
    ELSE ScaleSize(num, den * 1024, u + 1)
human_readable_size(size) == ScaleSize(size, 1, 1)

\* faulty variant: the folder is never found among the categories
KeyOfFolderNotFound(folder) == CatchAll

\* line 130: the key whose folder is the destination's name, else the catch-all
KeyOfFolder(folder) ==
    LET hits == SelectSeq(CategoryKeys, LAMBDA k : CategoriesGet(k, "Other") = folder)
    IN IF Len(hits) > 0 THEN hits[1] ELSE CatchAll

\* lines 127-145: one entry of rich_data
RichItem(fp, i, pair) ==
    LET category_key == KeyOfFolder(DirName(pair.dst))
    IN [name |-> FileName(pair.src),
        type |-> StrLower(pair.src.ext),
        size |-> IF FileAt(fp, pair.src) # NoFile THEN FileSize[FileAt(fp, pair.src)] ELSE 0,
        category |-> category_key,
        last_known_category |-> category_key,
        original_index |-> i,
        is_excluded |-> FALSE,
        is_changed |-> FALSE]

RichData(fp, plan) == [i \in 1..Len(plan) |-> RichItem(fp, i - 1, plan[i])]

\* lines 147-149: get_display_data_from_rich
get_display_data_from_rich(data) ==
    [i \in 1..Len(data) |->
        <<data[i].name, data[i].type, human_readable_size(data[i].size), data[i].category>>]

\* The order of characters by code point.  The Latin letters that stand for
\* Cyrillic ones are in the order of the Cyrillic alphabet; the file names of
\* the model compare the same way in either order.
CharOrder == <<" ", "-", ".", "a", "b", "v", "g", "d", "e", "z", "i", "k", "l", "m", "n",
               "o", "p", "r", "s", "t", "u", "f", "c", "h", "y", "j", "w", "q", "x">>
Ord(c) == CHOOSE i \in 1..Len(CharOrder) : CharOrder[i] = c

\* s < t for str
StrLess(s, t) ==
    \E i \in 1..(Len(s) + 1) :
        /\ i <= Len(t)
        /\ \A j \in 1..(i - 1) : s[j] = t[j]
        /\ (i = Len(s) + 1 \/ Ord(s[i]) < Ord(t[i]))

\* line 193
col_name_map == <<"name", "type", "size", "category">>

\* lines 203-209 with the comparison list.sort makes of two keys:
\* item x has a smaller key than item y
KeyLess(x, y, key_to_sort) ==
    CASE key_to_sort = "name" -> StrLess(StrLower(x.name), StrLower(y.name))
      [] key_to_sort = "type" -> StrLess(StrLower(x.type), StrLower(y.type))
      [] key_to_sort = "size" -> x.size < y.size
      [] key_to_sort = "category" ->
            StrLess(StrLower(CategoryChars(x.category)), StrLower(CategoryChars(y.category)))

\* list.sort(key, reverse): stable in both directions
RECURSIVE InsertStable(_, _, _, _)
InsertStable(sorted, x, key_to_sort, reverse) ==
    IF sorted = <<>> THEN <<x>>
    ELSE LET y == Head(sorted)
             xFirst == IF reverse THEN KeyLess(y, x, key_to_sort)
                       ELSE KeyLess(x, y, key_to_sort)
         IN IF xFirst THEN <<x>> \o sorted
            ELSE <<y>> \o InsertStable(Tail(sorted), x, key_to_sort, reverse)

RECURSIVE ListSort(_, _, _)
ListSort(data, key_to_sort, reverse) ==
    IF data = <<>> THEN <<>>
    ELSE InsertStable(ListSort(SubSeq(data, 1, Len(data) - 1), key_to_sort, reverse),
                      data[Len(data)], key_to_sort, reverse)

MaxEdits == 3

\* the category keys the user picks from the right-click menu
MenuPicks == {"Prohee", "Wridiheskie dokumenty"}

\* faulty variant: the list is sorted and the table is not refreshed
PreviewHeaderClickNoRefresh(col) ==
    /\ mainpc = "preview"
    /\ edits < MaxEdits
    /\ LET asc == IF sort_state.col = col THEN ~sort_state.asc ELSE TRUE
       IN /\ sort_state' = [col |-> col, asc |-> asc]
          /\ rich_data' = ListSort(rich_data, col_name_map[col + 1], ~asc)
    /\ edits' = edits + 1
    /\ UNCHANGED <<clsVars, envVars, cfgVars, fsVars, guiVars, thrVars, original_plan, table_values,
                   final_plan, previewOf, confirmed, restored, lastEdit, histVars>>

\* lines 190-212: a click on the header of column col (0-based)
PreviewHeaderClick(col) ==
    /\ mainpc = "preview"
    /\ edits < MaxEdits
    /\ LET asc == IF sort_state.col = col THEN ~sort_state.asc ELSE TRUE
       IN /\ sort_state' = [col |-> col, asc |-> asc]
          /\ rich_data' = ListSort(rich_data, col_name_map[col + 1], ~asc)
    /\ table_values' = get_display_data_from_rich(rich_data')
    /\ edits' = edits + 1
    /\ UNCHANGED <<clsVars, envVars, cfgVars, fsVars, guiVars, thrVars, original_plan, final_plan,
                   previewOf, confirmed, restored, lastEdit, histVars>>

\* lines 221-226: the exclusion toggle on an item
ToggleExcluded(item) ==
    IF ~item.is_excluded
    THEN [item EXCEPT !.is_excluded = TRUE, !.category = _EXCLUDED_DISPLAY_TEXT]
    ELSE [item EXCEPT !.is_excluded = FALSE, !.category = item.last_known_category]

\* faulty variant: the new category is not remembered as the last known one
ReassignNotRemembered(item, event) ==
    [item EXCEPT !.category = event, !.is_excluded = FALSE, !.is_changed = TRUE]

\* faulty variant: the exclusion flag is left as it is
ReassignStillExcluded(item, event) ==
    [item EXCEPT !.category = event, !.last_known_category = event, !.is_changed = TRUE]

\* lines 228-232: a new category for an item
Reassign(item, event) ==
    [item EXCEPT !.category = event, !.last_known_category = event,
                 !.is_excluded = FALSE, !.is_changed = TRUE]

\* lines 215-234: a pick from the right-click menu with table row `row`
\* (0-based) selected
PreviewMenu(row, event) ==
    /\ mainpc = "preview"
    /\ edits < MaxEdits
    /\ row + 1 \in 1..Len(table_values)
    /\ rich_data' = [rich_data EXCEPT ![row + 1] =
            IF event = _EXCLUDED_KEY THEN ToggleExcluded(@) ELSE Reassign(@, event)]
    /\ table_values' = get_display_data_from_rich(rich_data')
    /\ edits' = edits + 1
    /\ LET item == rich_data[row + 1]
       IN /\ confirmed' = IF event = _EXCLUDED_KEY THEN confirmed
                          ELSE [confirmed EXCEPT ![item.original_index] = event]
          /\ restored' = IF event = _EXCLUDED_KEY /\ item.is_excluded
                         THEN restored \cup {item.original_index}
                         ELSE restored
          /\ lastEdit' = [shown |-> table_values[row + 1],
                          before |-> get_display_data_from_rich(<<item>>)[1],
                          entry |-> item.original_index,
                          event |-> event]
    /\ UNCHANGED <<clsVars, envVars, cfgVars, fsVars, guiVars, thrVars, original_plan, sort_state,
                   final_plan, previewOf, histVars>>

\* faulty variant: the destination of the original plan is kept
FinalPlanOldDestination(data, plan) ==
    LET kept == SelectSeq(data, LAMBDA item : ~item.is_excluded)
    IN [i \in 1..Len(kept) |->
          LET original == plan[kept[i].original_index + 1]
          IN [src |-> original.src, dst |-> original.dst]]

\* lines 238-246: the finalized plan
FinalPlan(data, plan) ==
    LET kept == SelectSeq(data, LAMBDA item : ~item.is_excluded)
    IN [i \in 1..Len(kept) |->
          LET original == plan[kept[i].original_index + 1]
          IN [src |-> original.src,
              dst |-> DirJoin(DirParent(original.dst),
                              CategoriesGet(kept[i].category, "Other"))]]

(***************************************************************************)
(* gui.py: GUI.run, the event loop of the main window                      *)
(***************************************************************************)
NoPlan == [run |-> 0, entries |-> <<>>]

\* lines 18, 88: last_llm_model.json when it does not exist
NoModelCfg == [exists |-> FALSE, text |-> <<>>]

\* json.dump of {"last_model": name}: the text of the file, in tokens
JsonDump(name) == <<"{", DoubleQuote, "last_model", DoubleQuote, ":",
                    DoubleQuote, name, DoubleQuote, "}">>

\* json.load(f).get("last_model"): the value of the key, None without it
JsonGetLastModel(text) ==
    IF /\ Len(text) = 9
       /\ SubSeq(text, 1, 5) = <<"{", DoubleQuote, "last_model", DoubleQuote, ":">>
       /\ text[6] = DoubleQuote /\ text[8] = DoubleQuote /\ text[9] = "}"
    THEN text[7]
    ELSE NoValue

\* faulty variant: the first model of the list, whatever was saved
LoadFirstModel(models, cfg) ==
    IF models # <<>> THEN models[1] ELSE DEFAULT_MODEL

\* lines 87-95
load_last_model(models, cfg) ==
    LET name == IF cfg.exists THEN JsonGetLastModel(cfg.text) ELSE NoValue
    IN IF cfg.exists /\ \E j \in 1..Len(models) : models[j] = name
       THEN name
       ELSE IF models # <<>> THEN models[1] ELSE DEFAULT_MODEL

\* lines 97-99
save_last_model(name) == [exists |-> TRUE, text |-> JsonDump(name)]

\* the values of final_plan: None, or the list of pairs
Cancelled == [none |-> TRUE, pairs |-> <<>>]
Finalized(pairs) == [none |-> FALSE, pairs |-> pairs]

NoEdit == [shown |-> <<>>, before |-> <<>>, entry |-> -1, event |-> NoValue]

Started(threads) == {t \in DOMAIN threads : threads[t].pc # "unstarted"}
Active(threads) ==
    {t \in DOMAIN threads : threads[t].pc \notin {"unstarted", "done", "raised"}}

\* lines 308-328: the analysis button.  `filled`: src and tgt are both set
PressAnalyze(filled) ==
    /\ mainpc = "loop"
    /\ Cardinality(Started(an)) < runLimit
    /\ IF ~filled \/ model_value = NoModel
       THEN UNCHANGED <<an, bar, model_cfg, lastSaved>>
       ELSE /\ model_cfg' = save_last_model(model_value)
            /\ lastSaved' = model_value
            /\ an' = [an EXCEPT ![Cardinality(Started(an)) + 1] =
                        [NewThread EXCEPT !.pc = "begin", !.model = model_value]]
            /\ bar' = [value |-> 0, visible |-> TRUE]
    /\ UNCHANGED <<clsVars, envVars, model_value, model_values, starts, loading, refreshes,
                   fsVars, mainpc, queue, sorting_plan, ap, pvVars, histVars>>

\* lines 357-365
HandleProgress ==
    /\ mainpc = "loop"
    /\ queue # <<>>
    /\ Head(queue).ev = "-PROGRESS-"
    /\ LET v == Head(queue)
       IN IF v.done = -1 /\ v.total = -1
          THEN UNCHANGED bar
          ELSE bar' = [bar EXCEPT !.value =
                          IF v.total # 0 THEN (v.done * 100) \div v.total ELSE 0]
    /\ queue' = Tail(queue)
    /\ UNCHANGED <<clsVars, envVars, cfgVars, fsVars, mainpc, sorting_plan, thrVars, pvVars,
                   histVars>>

\* lines 330-337: the analysis is done; without a plan an error box, with
\* one the preview window opens (lines 119-145, 168)
HandleAnalysisDone ==
    /\ mainpc = "loop"
    /\ queue # <<>>
    /\ Head(queue).ev = "-ANALYSIS_DONE-"
    /\ queue' = Tail(queue)
    /\ bar' = [value |-> 0, visible |-> FALSE]
    /\ IF sorting_plan.entries = <<>>
       THEN UNCHANGED <<mainpc, pvVars>>
       ELSE /\ mainpc' = "preview"
            /\ original_plan' = sorting_plan.entries
            /\ rich_data' = RichData(fpath, sorting_plan.entries)
            /\ table_values' = get_display_data_from_rich(rich_data')
            /\ sort_state' = [col |-> -1, asc |-> TRUE]
            /\ final_plan' = Cancelled
            /\ previewOf' = sorting_plan.run
            /\ edits' = 0
            /\ confirmed' = [i \in 0..(Len(sorting_plan.entries) - 1) |->
                                KeyOfFolder(DirName(sorting_plan.entries[i + 1].dst))]
            /\ restored' = {}
            /\ lastEdit' = NoEdit
    /\ UNCHANGED <<clsVars, envVars, cfgVars, fsVars, sorting_plan, thrVars, histVars>>

\* The locals of create_preview_window keep their last values after the
\* window is closed; nothing but the properties reads them until the next
\* preview sets them anew.
\* lines 185-187, 249-250, 339: the preview is cancelled or closed
PreviewCancel ==
    /\ mainpc = "preview"
    /\ mainpc' = "loop"
    /\ cancelled' = cancelled \cup {previewOf}
    /\ final_plan' = Cancelled
    /\ UNCHANGED <<clsVars, envVars, cfgVars, fsVars, queue, sorting_plan, bar, thrVars,
                   original_plan, rich_data, table_values, sort_state,
                   previewOf, edits, confirmed, restored, lastEdit,
                   committed, moveLog, analysisLog, globbed>>

\* lines 237-250, 339-350: the plan is committed; a finalized plan that is
\* not empty is handed to a run_apply thread
PreviewCommit ==
    /\ mainpc = "preview"
    /\ mainpc' = "loop"
    /\ committed' = committed \cup {previewOf}
    /\ final_plan' = Finalized(FinalPlan(rich_data, original_plan))
    /\ IF final_plan'.pairs = <<>>
       THEN UNCHANGED <<ap, bar>>
       ELSE /\ ap' = [ap EXCEPT ![Cardinality(Started(ap)) + 1] =
                        [NewApply EXCEPT !.pc = "begin",
                                         !.sorting_plan = final_plan'.pairs,
                                         !.run = previewOf,
                                         !.afterCancel = previewOf \in cancelled]]
            /\ bar' = [value |-> 0, visible |-> TRUE]
    /\ UNCHANGED <<clsVars, envVars, cfgVars, fsVars, queue, sorting_plan, an,
                   original_plan, rich_data, table_values, sort_state,
                   previewOf, edits, confirmed, restored, lastEdit,
                   cancelled, moveLog, analysisLog, globbed>>

\* lines 352-354
HandleApplyDone ==
    /\ mainpc = "loop"
    /\ queue # <<>>
    /\ Head(queue).ev = "-APPLY_DONE-"
    /\ queue' = Tail(queue)
    /\ bar' = [value |-> 0, visible |-> FALSE]
    /\ UNCHANGED <<clsVars, envVars, cfgVars, fsVars, mainpc, sorting_plan, thrVars, pvVars,
                   histVars>>

(***************************************************************************)
(* gui.py: the list of models                                              *)
(***************************************************************************)
\* the models `ollama list` names when it names some
InstalledModels == {"llama3", DEFAULT_MODEL}

\* lines 50-85: how get_ollama_models ends; each but "ok" gives ([], msg)
ModelListOutcomes == {"ok", "binary_missing", "list_failed", "no_models", "exception"}
\* the message get_ollama_models returns with an empty list
ErrorMessage(outcome) ==
    CASE outcome = "binary_missing" -> "Ollama ne najdena po puti"
      [] outcome = "list_failed" -> "Oshibka pri vyzove ollama list"
      [] outcome = "no_models" -> "Modeli Ollama ne najdeny"
      [] outcome = "exception" -> "Ne udalos poluchit modeli Ollama"

MaxRefreshes == 1

\* the lists `ollama list` can name
ModelLists ==
    {<<m>> : m \in InstalledModels}
    \cup {l \in InstalledModels \X InstalledModels : l[1] # l[2]}

ModelsEvent(models, selected) ==
    [ev |-> "-MODELS-", done |-> -1, total |-> -1, models |-> models, selected |-> selected]

\* lines 272-279: a _load_models thread ends.  On an error the message is
\* sent as the only item of the list and as the selection; otherwise
\* load_last_model picks a model of the list.
LoadModels(outcome) ==
    /\ loading > 0
    /\ loading' = loading - 1
    /\ IF outcome = "ok"
       THEN \E models \in ModelLists :
               queue' = Append(queue, ModelsEvent(models, load_last_model(models, model_cfg)))
       ELSE queue' = Append(queue, ModelsEvent(<<ErrorMessage(outcome)>>,
                                               ErrorMessage(outcome)))
    /\ UNCHANGED <<clsVars, envVars, model_value, model_values, model_cfg, lastSaved, starts,
                   refreshes, fsVars, mainpc, sorting_plan, bar, thrVars, pvVars, histVars>>

\* lines 301-303
HandleModels ==
    /\ mainpc = "loop"
    /\ queue # <<>>
    /\ Head(queue).ev = "-MODELS-"
    /\ model_values' = Head(queue).models
    /\ model_value' = Head(queue).selected
    /\ queue' = Tail(queue)
    /\ UNCHANGED <<clsVars, envVars, model_cfg, lastSaved, starts, loading, refreshes, fsVars,
                   mainpc, sorting_plan, bar, thrVars, pvVars, histVars>>

\* lines 304-307: the refresh button
PressRefresh ==
    /\ mainpc = "loop"
    /\ refreshes < MaxRefreshes
    /\ refreshes' = refreshes + 1
    /\ model_values' = <<LoadingText>>
    /\ model_value' = LoadingText
    /\ loading' = loading + 1
    /\ UNCHANGED <<clsVars, envVars, model_cfg, lastSaved, starts, fsVars, guiVars, thrVars,
                   pvVars, histVars>>

(***************************************************************************)
(* The program: one analysis of a folder of four files                     *)
(***************************************************************************)
\* the model list was loaded and a model of it is selected
ModelsLoaded ==
    /\ model_values = <<DEFAULT_MODEL, "llama3">>
    /\ model_value = DEFAULT_MODEL
    /\ model_cfg = NoModelCfg
    /\ lastSaved = NoModel
    /\ starts = 1
    /\ loading = 0
    /\ refreshes = 0

ClsIdle ==
    /\ replyParts = <<>>
    /\ requestOutcome = "pending"
    /\ returned = NoValue

NoPreview ==
    /\ original_plan = <<>>
    /\ rich_data = <<>>
    /\ table_values = <<>>
    /\ sort_state = [col |-> -1, asc |-> TRUE]
    /\ final_plan = Cancelled
    /\ previewOf = 0
    /\ edits = 0
    /\ confirmed = <<>>
    /\ restored = {}
    /\ lastEdit = NoEdit
    /\ cancelled = {}
    /\ committed = {}
    /\ moveLog = {}
    /\ analysisLog = [r \in Runs |-> <<>>]
    /\ globbed = [r \in Runs |-> <<>>]

\* lines 256-270: GUI.__init__, no worker thread started
GuiStart ==
    /\ dirs = {}
    /\ mainpc = "loop"
    /\ queue = <<>>
    /\ sorting_plan = NoPlan
    /\ bar = [value |-> 0, visible |-> FALSE]
    /\ an = [r \in Runs |-> NewThread]
    /\ ap = [a \in Runs |-> NewApply]
    /\ NoPreview

Init ==
    /\ ClsIdle
    /\ ModelsLoaded
    /\ src_dir = SourceRoot
    /\ tgt_dir \in {<<"T">>, <<"D", "T">>}
    /\ ftext \in {t \in [Files -> ExtractedTexts] :
                     \A f \in Files \ {3} : t[f] = <<" ", "t", " ">>}
    /\ runLimit = 1
    /\ fpath = InitialPath
    /\ GuiStart

WorkerNext ==
    \/ \E r \in Runs : SortBegin(r) \/ SortGlob(r) \/ SortAnnounce(r)
                          \/ SortAnalyze(r) \/ SortEnd(r)
    \/ \E a \in Runs : ApplyBegin(a) \/ ApplyAnnounce(a) \/ ApplyMove(a) \/ ApplyEnd(a)

LoopNext ==
    \/ \E filled \in BOOLEAN : PressAnalyze(filled)
    \/ HandleProgress
    \/ HandleAnalysisDone
    \/ HandleApplyDone
    \/ PreviewCancel
    \/ PreviewCommit

Next == WorkerNext \/ LoopNext

Spec == Init /\ [][Next]_vars

\* The same with its scheduling: a worker thread that can take a step takes
\* it, and window.read(timeout=100) hands every queued event to the loop.
\* Nothing is assumed of the user.
HandleNext ==
    HandleProgress \/ HandleAnalysisDone \/ HandleApplyDone

SpecLive ==
    /\ Init
    /\ [][Next]_vars
    /\ WF_vars(WorkerNext)
    /\ WF_vars(HandleNext)

(***************************************************************************)
(* The program with the analysis button pressed up to MaxRuns times, on a  *)
(* source folder that holds two of the files                               *)
(***************************************************************************)
Elsewhere == <<"E">>

InitGui ==
    /\ ClsIdle
    /\ ModelsLoaded
    /\ src_dir = SourceRoot
    /\ tgt_dir = <<"T">>
    /\ ftext = [f \in Files |-> <<" ", "t", " ">>]
    /\ runLimit = MaxRuns
    /\ fpath = [f \in Files |-> IF f \in {2, 3}
                                 THEN [InitialPath[f] EXCEPT !.dir = Elsewhere]
                                 ELSE InitialPath[f]]
    /\ GuiStart

SpecGui == InitGui /\ [][Next]_vars

(***************************************************************************)
(* The program from its start, when the list of models is being loaded     *)
(* (lines 284-295), with one analysis of the folder of SpecGui             *)
(***************************************************************************)
InitConfig ==
    /\ ClsIdle
    /\ model_values = <<LoadingText>>
    /\ model_value \in {NoModel, LoadingText}
    /\ model_cfg = NoModelCfg
    /\ lastSaved = NoModel
    /\ starts = 1
    /\ loading = 1
    /\ refreshes = 0
    /\ src_dir = SourceRoot
    /\ tgt_dir = <<"T">>
    /\ ftext = [f \in Files |-> <<" ", "t", " ">>]
    /\ runLimit = 1
    /\ fpath = [f \in Files |-> IF f \in {2, 3}
                                 THEN [InitialPath[f] EXCEPT !.dir = Elsewhere]
                                 ELSE InitialPath[f]]
    /\ GuiStart

ConfigNext ==
    \/ \E outcome \in ModelListOutcomes : LoadModels(outcome)
    \/ HandleModels
    \/ PressRefresh
    \/ Next

SpecConfig == InitConfig /\ [][ConfigNext]_vars

(***************************************************************************)
(* The model preference over several starts of the program: the window is  *)
(* closed and the program started again; last_llm_model.json stays         *)
(***************************************************************************)
MaxStarts == 2

\* the user picks a model of the combo (line 260; read at line 309)
PickModel(m) ==
    /\ mainpc = "loop"
    /\ \E j \in 1..Len(model_values) : model_values[j] = m
    /\ model_value # m
    /\ model_value' = m
    /\ UNCHANGED <<clsVars, envVars, model_values, model_cfg, lastSaved, starts, loading,
                   refreshes, fsVars, guiVars, thrVars, pvVars, histVars>>

\* lines 299-300, 371: the window is closed and the process ends, its daemon
\* threads and its queued events with it; lines 256-270, 284-295: the
\* program is started again
Restart ==
    /\ mainpc = "loop"
    /\ starts < MaxStarts
    /\ starts' = starts + 1
    /\ model_values' = <<LoadingText>>
    /\ model_value' \in {NoModel, LoadingText}
    /\ loading' = 1
    /\ refreshes' = 0
    /\ queue' = <<>>
    /\ bar' = [value |-> 0, visible |-> FALSE]
    /\ an' = [r \in Runs |-> NewThread]
    /\ ap' = [a \in Runs |-> NewApply]
    /\ UNCHANGED <<clsVars, envVars, model_cfg, lastSaved, fsVars, mainpc, sorting_plan,
                   pvVars, histVars>>

PrefsNext ==
    \/ \E outcome \in ModelListOutcomes : LoadModels(outcome)
    \/ HandleModels
    \/ PressRefresh
    \/ \E m \in InstalledModels : PickModel(m)
    \/ \E filled \in BOOLEAN : PressAnalyze(filled)
    \/ Restart

SpecPrefs == InitConfig /\ [][PrefsNext]_vars

(***************************************************************************)
(* src/gui.py: the GUI that starts sort() and shows its progress, with no   *)
(* preview window; one analysis of the folder of four files                *)
(***************************************************************************)
\* lines 158-178: the start button.  `filled`: src and tgt are both set;
\* `ready`: the Ollama server runs or could be started
PressStart(filled, ready) ==
    /\ mainpc = "loop"
    /\ Cardinality(Started(an)) < runLimit
    /\ IF ~filled \/ model_value = NoModel
       THEN UNCHANGED <<an, bar, model_cfg, lastSaved>>
       ELSE /\ model_cfg' = save_last_model(model_value)
            /\ lastSaved' = model_value
            /\ IF ~ready
               THEN UNCHANGED <<an, bar>>
               ELSE /\ an' = [an EXCEPT ![Cardinality(Started(an)) + 1] =
                              [NewThread EXCEPT !.pc = "begin", !.model = model_value]]
                    /\ bar' = [value |-> 0, visible |-> TRUE]
    /\ UNCHANGED <<clsVars, envVars, model_value, model_values, starts, loading, refreshes,
                   fsVars, mainpc, queue, sorting_plan, ap, pvVars, histVars>>

\* lines 127-137 with main.py line 65: sort() returns and the thread ends
SortingThreadEnd(r) ==
    /\ an[r].pc = "end"
    /\ queue' = queue \o <<ProgressEvent(0, 100, TRUE), Event("-DONE-", 0, 0)>>
    /\ an' = [an EXCEPT ![r].pc = "done",
                         ![r].sent = Append(@, ProgressEvent(0, 100, TRUE))]
    /\ UNCHANGED <<clsVars, envVars, cfgVars, fsVars, mainpc, sorting_plan, bar, ap, pvVars,
                   histVars>>

\* lines 134-137: sort() raised; the thread reports the end all the same
SortingThreadCaught(r) ==
    /\ an[r].pc = "raised"
    /\ queue' = Append(queue, Event("-DONE-", 0, 0))
    /\ an' = [an EXCEPT ![r].pc = "caught"]
    /\ UNCHANGED <<clsVars, envVars, cfgVars, fsVars, mainpc, sorting_plan, bar, ap, pvVars,
                   histVars>>

\* int(done / total * 100): the quotient, cut off towards zero
Percent(done, total) ==
    LET Abs(n) == IF n < 0 THEN 0 - n ELSE n
        q == (Abs(done) * 100) \div Abs(total)
    IN IF (done < 0) = (total < 0) THEN q ELSE 0 - q

\* lines 180-184
ShowProgress ==
    /\ mainpc = "loop"
    /\ queue # <<>>
    /\ Head(queue).ev = "-PROGRESS-"
    /\ LET v == Head(queue)
       IN bar' = [bar EXCEPT !.value = IF v.total # 0 THEN Percent(v.done, v.total) ELSE 0]
    /\ queue' = Tail(queue)
    /\ UNCHANGED <<clsVars, envVars, cfgVars, fsVars, mainpc, sorting_plan, thrVars, pvVars,
                   histVars>>

\* lines 186-188
HandleDone ==
    /\ mainpc = "loop"
    /\ queue # <<>>
    /\ Head(queue).ev = "-DONE-"
    /\ queue' = Tail(queue)
    /\ bar' = [value |-> 0, visible |-> FALSE]
    /\ UNCHANGED <<clsVars, envVars, cfgVars, fsVars, mainpc, sorting_plan, thrVars, pvVars,
                   histVars>>

SrcGuiNext ==
    \/ \E filled, ready \in BOOLEAN : PressStart(filled, ready)
    \/ \E r \in Runs : SortBegin(r) \/ SortGlob(r) \/ SortAnnounce(r) \/ SortAnalyze(r)
                          \/ SortingThreadEnd(r) \/ SortingThreadCaught(r)
    \/ ShowProgress
    \/ HandleDone

SpecSrcGui == Init /\ [][SrcGuiNext]_vars

(***************************************************************************)
(* The preview window with its edits, from the moment an analysis of the   *)
(* folder has ended                                                        *)
(***************************************************************************)
\* the plans sort() gives for the folder when files 1 and 3 are classified
\* c1 and c3
PlansOfSort(c1, c3) ==
    {[i \in 1..3 |-> PlanEntry(InitialPath[order[i]],
                               IF order[i] = 1 THEN c1
                               ELSE IF order[i] = 3 THEN c3 ELSE "Knigi")] :
        order \in {<<1, 2, 3>>, <<3, 2, 1>>}}

InitEditor ==
    /\ ClsIdle
    /\ ModelsLoaded
    /\ src_dir = SourceRoot
    /\ tgt_dir = <<"T">>
    /\ ftext = [f \in Files |-> <<" ", "t", " ">>]
    /\ runLimit = 1
    /\ fpath = InitialPath
    /\ dirs = CategoryDirs(tgt_dir)
    /\ mainpc = "loop"
    /\ bar = [value |-> 100, visible |-> TRUE]
    /\ ap = [a \in Runs |-> NewApply]
    /\ NoPreview
    /\ \E c1 \in {"Knigi", "Prohee"} : \E p \in PlansOfSort(c1, "Prohee") :
          /\ an = [r \in Runs |-> IF r = 1
                      THEN [pc |-> "done", model |-> DEFAULT_MODEL,
                            files_to_sort |-> [i \in 1..3 |-> p[i].src],
                            i |-> 3, sorting_plan |-> p,
                            sent |-> SortNotifications(3)]
                      ELSE NewThread]
          /\ sorting_plan = [run |-> 1, entries |-> p]
    /\ queue = <<Event("-ANALYSIS_DONE-", 0, 0)>>

EditorNext ==
    \/ HandleAnalysisDone
    \/ \E col \in 0..3 : PreviewHeaderClick(col)
    \/ \E row \in 0..2, event \in MenuPicks \cup {_EXCLUDED_KEY} : PreviewMenu(row, event)
    \/ PreviewCancel
    \/ PreviewCommit

SpecEditor == InitEditor /\ [][EditorNext]_vars

(***************************************************************************)
(* classify() on its own                                                   *)
(***************************************************************************)
Idle ==
    /\ ModelsLoaded
    /\ src_dir = SourceRoot
    /\ tgt_dir = <<"T">>
    /\ ftext = [f \in Files |-> <<>>]
    /\ runLimit = 0
    /\ fpath = InitialPath
    /\ GuiStart

RECURSIVE Flatten(_)
Flatten(parts) ==
    IF parts = <<>> THEN <<>> ELSE Head(parts) \o Flatten(Tail(parts))

\* response.json()["message"]["content"]
ReplyBody == Flatten(replyParts)

ClsInit ==
    /\ Idle
    /\ replyParts = <<>>
    /\ requestOutcome = "pending"
    /\ returned = NoValue

\* the model writes its reply
ClsReplyGrows(seg) ==
    /\ requestOutcome = "pending"
    /\ Len(replyParts) < MaxSegs
    /\ replyParts' = Append(replyParts, seg)
    /\ UNCHANGED <<requestOutcome, returned, envVars, cfgVars, fsVars, guiVars, thrVars, pvVars, histVars>>

ClsClassify(outcome) ==
    /\ requestOutcome = "pending"
    /\ requestOutcome' = outcome
    /\ returned' = Classify(outcome, ReplyBody)
    /\ UNCHANGED <<replyParts, envVars, cfgVars, fsVars, guiVars, thrVars, pvVars, histVars>>

ClsNext ==
    \/ \E seg \in ReplySegments : ClsReplyGrows(seg)
    \/ \E outcome \in RequestOutcomes : ClsClassify(outcome)

SpecClassify == ClsInit /\ [][ClsNext]_vars

(***************************************************************************)
(* Properties                                                              *)
(***************************************************************************)

\* C1: in the GUI workflow a file is moved only for a plan the user has
\* committed in the preview window, and once the preview of a plan was
\* cancelled or closed no file is moved for that plan.
C1_MovesOnlyForCommittedPlan ==
    \A m \in moveLog : m.run \in committed /\ ~m.afterCancel

\* C2: planning is read-only on the files: no step of sort() changes where a
\* file is; the only change it makes is the creation of category folders
\* under the target root.
SortStep == \E r \in Runs : an[r].pc \notin {"unstarted", "done"} /\ an'[r] # an[r]
C2_PlanningReadOnly ==
    [][SortStep => /\ fpath' = fpath
                   /\ dirs \subseteq dirs'
                   /\ dirs' \ dirs \subseteq CategoryDirs(tgt_dir)]_vars
C2_Witness ==
    /\ an[1].pc = "done"
    /\ Len(an[1].sorting_plan) = 3
    /\ dirs = CategoryDirs(tgt_dir)
    /\ fpath = InitialPath

\* the file a pair of a plan stood for when the program started
FileOfPair(pair) == FileAt(InitialPath, pair.src)
\* where apply_sort puts the file of a pair
MovedTo(pair) == [dir |-> pair.dst, stem |-> pair.src.stem, ext |-> pair.src.ext]

\* C3: round trip: once the unedited plan of sort() has been applied, every
\* file of the plan is in the folder of its category and is no longer under
\* the source root.
C3_RoundTrip ==
    \A a \in Runs :
        (ap[a].pc = "done" /\ ap[a].sorting_plan = an[ap[a].run].sorting_plan) =>
            \A j \in 1..Len(ap[a].sorting_plan) :
                LET pair == ap[a].sorting_plan[j]
                IN /\ fpath[FileOfPair(pair)].dir = pair.dst
                   /\ ~IsPrefix(src_dir, fpath[FileOfPair(pair)].dir)

\* C4: a failed move affects its own file only: apply_sort never ends on a
\* failed move, it attempts every pair, every pair whose move succeeded is
\* and stays in its destination, and a pair fails only when it could not be
\* moved (here: its destination holds another file of that name).
C4_FailedMoveIsLocal ==
    \A a \in Runs :
        /\ ap[a].pc \in {"unstarted", "begin", "announce", "move", "end", "done"}
        /\ ap[a].pc \in {"end", "done"} => ap[a].i = Len(ap[a].sorting_plan)
        /\ ap[a].failed \subseteq 1..ap[a].i
        /\ \A j \in 1..ap[a].i :
              LET pair == ap[a].sorting_plan[j]
                  f == FileOfPair(pair)
              IN IF j \in ap[a].failed
                 THEN /\ fpath[f] = pair.src
                      /\ FileAt(fpath, MovedTo(pair)) \notin {NoFile, f}
                 ELSE fpath[f] = MovedTo(pair)
C4_Witness ==
    \E a \in Runs : /\ ap[a].pc = "done"
                    /\ Len(ap[a].sorting_plan) = 3
                    /\ ap[a].failed = {2}

\* the folder of a category key, read from config.py
FolderOfKey(k) == CATEGORIES[CHOOSE i \in 1..Len(CATEGORIES) : CATEGORIES[i].key = k].folder

\* C5: on commit, after any edits, the preview returns exactly one pair for
\* each entry that is not excluded and none for an excluded one, and the
\* destination of a pair is the target root joined with the folder of the
\* entry's current category.
C5_CommitYieldsKeptEntries ==
    (mainpc = "loop" /\ ~final_plan.none) =>
        LET pairs == final_plan.pairs
            kept == {i \in 1..Len(rich_data) : ~rich_data[i].is_excluded}
        IN /\ Len(pairs) = Cardinality(kept)
           /\ \A i \in 1..Len(rich_data) :
                LET item == rich_data[i]
                    src == original_plan[item.original_index + 1].src
                    hits == {j \in 1..Len(pairs) : pairs[j].src = src}
                IN IF item.is_excluded THEN hits = {}
                   ELSE /\ Cardinality(hits) = 1
                        /\ \A j \in hits :
                              pairs[j].dst = DirJoin(tgt_dir, FolderOfKey(item.category))
C5_Witness ==
    /\ mainpc = "loop"
    /\ ~final_plan.none
    /\ sort_state.col # -1
    /\ \E i \in 1..Len(rich_data) : rich_data[i].is_excluded
    /\ \E i \in 1..Len(rich_data) : rich_data[i].is_changed /\ ~rich_data[i].is_excluded

\* the category sort() gave the entry of original index idx
PlannedCategory(idx) == KeyOfFolder(DirName(original_plan[idx + 1].dst))

\* C6: an entry that was excluded and then un-excluded has its last
\* confirmed category: the one it was last reassigned to, or the planner's
\* when it was never reassigned.
C6_UnexcludeRestoresConfirmed ==
    \A i \in 1..Len(rich_data) :
        (rich_data[i].original_index \in restored /\ ~rich_data[i].is_excluded) =>
            rich_data[i].category = confirmed[rich_data[i].original_index]
C6_Witness ==
    \E i \in 1..Len(rich_data) :
        /\ rich_data[i].original_index \in restored
        /\ lastEdit.entry = rich_data[i].original_index
        /\ lastEdit.before[4] = _EXCLUDED_DISPLAY_TEXT
        /\ ~rich_data[i].is_excluded
        /\ rich_data[i].is_changed
        /\ rich_data[i].category # PlannedCategory(rich_data[i].original_index)

\* C7: sorting never changes which file an entry stands for: the table
\* shows rich_data row for row, so a menu pick on row r changes the entry
\* shown in row r; the entries are a permutation of the plan's; each entry
\* keeps the name of the plan element of its original index, and on commit
\* its pair has that element's source path.
C7_SortKeepsIdentity ==
    /\ mainpc = "preview" => table_values = get_display_data_from_rich(rich_data)
    /\ Len(rich_data) = Len(original_plan)
    /\ {rich_data[i].original_index : i \in 1..Len(rich_data)} = 0..(Len(original_plan) - 1)
    /\ \A i \in 1..Len(rich_data) :
          rich_data[i].name = FileName(original_plan[rich_data[i].original_index + 1].src)
    /\ lastEdit.entry # -1 => lastEdit.shown = lastEdit.before
    /\ (mainpc = "loop" /\ ~final_plan.none) =>
          LET kept == SelectSeq(rich_data, LAMBDA item : ~item.is_excluded)
          IN /\ Len(final_plan.pairs) = Len(kept)
             /\ \A i \in 1..Len(kept) :
                   final_plan.pairs[i].src = original_plan[kept[i].original_index + 1].src
C7_Witness ==
    /\ mainpc = "loop"
    /\ ~final_plan.none
    /\ sort_state.col # -1
    /\ rich_data[1].original_index # 0
    /\ lastEdit.entry = rich_data[1].original_index
    /\ rich_data[1].is_changed

\* text without any character that is not white space
OnlyWhiteSpace(t) == \A i \in 1..Len(t) : t[i] \in {" ", "\n"}

\* C8 (as amended): during planning a file whose extracted text is empty or
\* white space only gets the catch-all category without a call of the
\* classifier; for any other text the classifier is called exactly once and
\* its result is the file's category.
C8_ClassifierOnlyForText ==
    \A r \in Runs : \A i \in 1..Len(analysisLog[r]) :
        LET e == analysisLog[r][i]
            pair == an[r].sorting_plan[i]
        IN /\ pair.src = e.path
           /\ OnlyWhiteSpace(e.text) =>
                 /\ e.calls = 0
                 /\ e.category = "Prohee"
                 /\ pair.dst = DirJoin(tgt_dir, "Other")
           /\ ~OnlyWhiteSpace(e.text) =>
                 /\ e.calls = 1
                 /\ pair.dst = DirJoin(tgt_dir, FolderOfKey(e.category))
C8_Witness ==
    \E i, j \in 1..Len(analysisLog[1]) :
        /\ analysisLog[1][i].text = <<"\n", "\n">>
        /\ analysisLog[1][i].calls = 0
        /\ analysisLog[1][j].calls = 1
        /\ analysisLog[1][j].category = "Knigi"

\* C8 as claimed: the classifier is skipped for the empty text and called
\* exactly once for every text that is not empty.
C8_AsClaimed ==
    \A r \in Runs : \A i \in 1..Len(analysisLog[r]) :
        LET e == analysisLog[r][i]
        IN /\ e.text = <<>> => (e.calls = 0 /\ e.category = "Prohee")
           /\ e.text # <<>> => e.calls = 1

\* C9: the plan sort() returns has exactly one entry for each file under the
\* source root whose lower-cased extension is supported, in the order of the
\* enumeration, and no other entry; no source path appears twice.
C9_PlanIsEligibleFiles ==
    \A r \in Runs : an[r].pc = "done" =>
        LET plan == an[r].sorting_plan
            srcs == [i \in 1..Len(plan) |-> plan[i].src]
            Eligible(p) == StrLower(p.ext) \in
                               {SUPPORTED_FORMATS[i] : i \in 1..Len(SUPPORTED_FORMATS)}
        IN /\ srcs = SelectSeq(globbed[r], Eligible)
           /\ {globbed[r][i] : i \in 1..Len(globbed[r])} =
                 {InitialPath[f] : f \in {g \in Files : IsPrefix(src_dir, InitialPath[g].dir)}}
           /\ \A i, j \in 1..Len(srcs) : i # j => srcs[i] # srcs[j]
C9_Witness ==
    /\ an[1].pc = "done"
    /\ Len(globbed[1]) = 4
    /\ Len(an[1].sorting_plan) = 3
    /\ \E i \in 1..3 : an[1].sorting_plan[i].src.ext = <<".", "P", "N", "G">>

\* the prefixes put before the marker in place of a reply's own
OtherPrefixes ==
    { <<>>, <<"x">>, KeyChars("Wridiheskie dokumenty"), <<" ", DoubleQuote>> }

\* C10 (as amended): for a reply that holds the marker once its apostrophes
\* are removed, the category depends only on the text after the first
\* occurrence of the marker in that text: any reply with the same text
\* after its first marker gets the same category.
C10_OnlyTextAfterFirstMarker ==
    (requestOutcome = "ok" /\ StrContains(think_end_tag, ReplyContent(ReplyBody))) =>
        LET content == ReplyContent(ReplyBody)
            at == Min(Occurrences(think_end_tag, content))
            rest == SubSeq(content, at + Len(think_end_tag), Len(content))
        IN \A p \in OtherPrefixes :
              Classify("ok", p \o think_end_tag \o rest) = returned
C10_Witness ==
    /\ requestOutcome = "ok"
    /\ Cardinality(Occurrences(think_end_tag, ReplyContent(ReplyBody))) = 2
    /\ returned = "Nauhnye statji"

\* C10 as claimed: for a reply that holds the marker, whichever occurrence
\* is taken, the category depends only on the text after it.
C10_AsClaimed ==
    requestOutcome = "ok" =>
        \A at \in Occurrences(think_end_tag, ReplyBody) :
            LET rest == SubSeq(ReplyBody, at + Len(think_end_tag), Len(ReplyBody))
            IN \A p \in OtherPrefixes :
                  Classify("ok", p \o think_end_tag \o rest) = returned

\* the reply without its reasoning segment, then without quote characters,
\* then without surrounding white space, case-folded
CleanedReply ==
    StrLower(StrStrip(StrRemove(StrRemove(StripThink(ReplyContent(ReplyBody)),
                                          Apostrophe), DoubleQuote)))

\* the keys whose case-folded form occurs in the cleaned reply
KeysInReply == {k \in CategoryKeySet : StrContains(StrLower(KeyChars(k)), CleanedReply)}

\* the place of a key in CATEGORIES
KeyIndex(k) == CHOOSE i \in 1..Len(CATEGORIES) : CATEGORIES[i].key = k

\* C11: when the reply, after removal of the reasoning segment, of quote
\* characters and of surrounding white space, equals a category key ignoring
\* case, classify() returns that key, whatever keys occur in it as substrings.
C11_ExactMatchReturnsKey ==
    requestOutcome = "ok" =>
        \A k \in CategoryKeySet :
            CleanedReply = StrLower(KeyChars(k)) => returned = k
C11_Witness ==
    /\ requestOutcome = "ok"
    /\ Len(replyParts) = 3
    /\ replyParts[1] = <<DoubleQuote>>
    /\ replyParts[2] = <<"K", "N", "I", "G", "I">>
    /\ replyParts[3] = <<" ">>
    /\ returned = "Knigi"

\* C12: when the cleaned reply equals no key, classify() returns a key of
\* greatest length among the keys that occur in it (of two such keys of equal
\* length the one that comes first in CATEGORIES), the only key when one
\* occurs, and the catch-all when none occurs.
C12_LongestSubstringMatch ==
    (requestOutcome = "ok" /\ \A k \in CategoryKeySet : CleanedReply # StrLower(KeyChars(k))) =>
        IF KeysInReply = {} THEN returned = "Prohee"
        ELSE /\ returned \in KeysInReply
             /\ \A k \in KeysInReply :
                   \/ Len(KeyChars(k)) < Len(KeyChars(returned))
                   \/ /\ Len(KeyChars(k)) = Len(KeyChars(returned))
                      /\ KeyIndex(returned) <= KeyIndex(k)
C12_Witness ==
    /\ requestOutcome = "ok"
    /\ Len(replyParts) = 3
    /\ replyParts[1] = KeyChars("Wridiheskie dokumenty")
    /\ replyParts[2] = KeyChars("Knigi")
    /\ replyParts[3] = KeyChars("Medicinskie dokumenty")
    /\ returned = "Medicinskie dokumenty"

\* C13: when the request to the endpoint fails (connection error, timeout,
\* HTTP error status, malformed body) classify() returns the catch-all
\* category and raises nothing: the file gets the catch-all folder and
\* sort() goes on to the next file, up to the end of its list (sort() ends
\* by an exception only before its first file).
C13_FailedRequestGivesCatchAll ==
    \A r \in Runs :
        /\ an[r].pc = "raised" => analysisLog[r] = <<>>
        /\ an[r].pc = "done" => Len(an[r].sorting_plan) = Len(an[r].files_to_sort)
        /\ \A i \in 1..Len(analysisLog[r]) :
              analysisLog[r][i].failed =>
                  /\ analysisLog[r][i].category = "Prohee"
                  /\ an[r].sorting_plan[i].dst = DirJoin(tgt_dir, "Other")
C13_Witness ==
    /\ an[1].pc = "done"
    /\ Len(analysisLog[1]) = 3
    /\ analysisLog[1][1].failed
    /\ ~analysisLog[1][2].failed
    /\ analysisLog[1][2].category = "Knigi"

\* C14: whatever the reply and however the request ends, classify() returns
\* one label and the label is a key of CATEGORIES.
C14_ReturnsCategoryKey ==
    requestOutcome # "pending" => returned \in CategoryKeySet
C14_Witness ==
    /\ requestOutcome = "ok"
    /\ Len(replyParts) = 2
    /\ KeysInReply = {}
    /\ StrContains(think_end_tag, ReplyBody)
    /\ returned = "Prohee"

\* C15: at most one plan or apply operation runs at a time: in no state are
\* two worker threads (sort() or apply_sort()) active on the source and
\* target folders of the window.
C15_AtMostOneWorker ==
    Cardinality(Active(an)) + Cardinality(Active(ap)) <= 1

\* C16: a configuration failure blocks planning: a sort() run is started
\* only with a model of the list obtained from Ollama, never when the list
\* could not be obtained, is empty or is still being loaded.
C16_NoRunWithoutModel ==
    \A r \in Runs : an[r].pc # "unstarted" => an[r].model \in InstalledModels

\* C17: every category folder, the catch-all folder included, exists under
\* the target root whenever a file is moved, and exists once sort() has
\* returned and from then on, also when no file is assigned to it.
C17_FoldersBeforeMoves ==
    [][/\ fpath' # fpath => CategoryDirs(tgt_dir) \subseteq dirs
       /\ (\E r \in Runs : an[r].pc = "done") => CategoryDirs(tgt_dir) \subseteq dirs']_vars
C17_Witness ==
    /\ \E a \in Runs : ap[a].pc = "done"
    /\ moveLog # {}
    /\ CategoryDirs(tgt_dir) \subseteq dirs
    /\ \E d \in CategoryDirs(tgt_dir) : \A f \in Files : fpath[f].dir # d

\* C18: a sorting plan is consumed at most once: no two apply_sort() runs
\* are started for the plan of one analysis run, and no apply_sort() run
\* is started for a plan that was cancelled before.
C18_PlanConsumedOnce ==
    /\ \A a, b \in Started(ap) : a # b => ap[a].run # ap[b].run
    /\ \A a \in Started(ap) : ~ap[a].afterCancel

\* C19: once started, a run handles every file of its list and ends, and
\* the window then receives its completion event and hides the progress
\* bar, also when the run ends by an exception.
C19_RunEndsAndBarHides ==
    /\ [](\A r \in Runs : an[r].pc = "done" => an[r].i = Len(an[r].files_to_sort))
    /\ [](\A a \in Runs : ap[a].pc = "done" => ap[a].i = Len(ap[a].sorting_plan))
    /\ \A r \in Runs :
          (an[r].pc = "begin") ~> (an[r].pc \in {"done", "raised"} /\ ~bar.visible)
    /\ \A a \in Runs :
          (ap[a].pc = "begin") ~> (ap[a].pc \in {"done", "raised"} /\ ~bar.visible)

\* the numeric notifications among those sent
Numeric(sent) == SelectSeq(sent, LAMBDA e : ~(e.done = -1 /\ e.total = -1))
\* the log-only notifications among those sent
LogOnly(sent) == SelectSeq(sent, LAMBDA e : e.done = -1 /\ e.total = -1)

\* what C20 says of the notifications `sent` by a run over n files of which
\* `handled` are handled, `started` says that the next one is started and
\* `atEnd` that the run has ended
ProgressAsClaimed(sent, n, handled, started, atEnd, phases) ==
    LET numeric == Numeric(sent)
    IN /\ \A j \in 1..Len(numeric) :
             /\ numeric[j].total = n
             /\ 0 <= numeric[j].done /\ numeric[j].done <= n
       /\ \A j \in 1..(Len(numeric) - 1) : numeric[j].done <= numeric[j + 1].done
       /\ Len(numeric) = 2 * handled + (IF started THEN 1 ELSE 0)
       /\ \A j \in 1..Len(numeric) : numeric[j].done = j \div 2
       /\ (atEnd /\ n > 0) => numeric[Len(numeric)].done = n
       /\ atEnd => /\ Len(LogOnly(sent)) = phases
                   /\ \A j \in 1..(phases - 1) : sent[j] = LogOnly(sent)[j]
                   /\ sent[Len(sent)] = LogOnly(sent)[phases]

\* C20: during a plan run over N files and an apply run over N pairs every
\* numeric notification has total = N and 0 <= done <= N, the done values
\* never decrease, done = i+1 is sent after item i is handled and before the
\* next is started, the last numeric one has done = N, and the phase
\* announcements are sent log-only.
C20_ProgressNotifications ==
    /\ \A r \in Runs : an[r].pc # "raised" =>
          ProgressAsClaimed(an[r].sent, Len(an[r].files_to_sort), an[r].i,
                            an[r].pc = "analyze", an[r].pc = "done", 3)
    /\ \A a \in Runs :
          ProgressAsClaimed(ap[a].sent, Len(ap[a].sorting_plan), ap[a].i,
                            ap[a].pc = "move", ap[a].pc = "done", 2)
C20_Witness ==
    /\ an[1].pc = "done"
    /\ Len(Numeric(an[1].sent)) = 6
    /\ \E a \in Runs : ap[a].pc = "done" /\ Len(Numeric(ap[a].sent)) = 6

\* the event a _load_models thread has just written
ModelsJustSent == queue'[Len(queue')]

\* C21: the list of models sent to the combo is never empty and holds the
\* pre-selected name; when the list was read without an error the
\* pre-selected name is the one saved when the last analysis was started if
\* the list holds it, and the first of the list otherwise; for an empty
\* list load_last_model gives the default model.
C21_PreferenceRoundTrip ==
    [][ /\ load_last_model(<<>>, model_cfg) = DEFAULT_MODEL
        /\ (loading' = loading - 1 /\ starts' = starts) =>
             LET e == ModelsJustSent
             IN /\ e.models # <<>>
                /\ \E j \in 1..Len(e.models) : e.models[j] = e.selected
                /\ e.models \in ModelLists =>
                     e.selected = IF \E j \in 1..Len(e.models) : e.models[j] = lastSaved
                                  THEN lastSaved ELSE e.models[1] ]_vars
C21_Witness ==
    /\ starts = 2
    /\ lastSaved = "llama3"
    /\ refreshes = 0
    /\ queue # <<>>
    /\ Head(queue).ev = "-MODELS-"
    /\ Head(queue).models = <<DEFAULT_MODEL, "llama3">>
    /\ Head(queue).selected = "llama3"

\* C22: in the plan editor, after any reassign, exclusion toggle and sort,
\* an entry is excluded exactly when the category it shows is the excluded
\* text; an entry that is not excluded shows its last confirmed category;
\* the last confirmed category is a key of CATEGORIES; and an excluded entry
\* that is reassigned to a category is no longer excluded.
C22_EditorInvariant ==
    /\ \A i \in 1..Len(rich_data) :
          LET item == rich_data[i]
          IN /\ item.is_excluded <=> item.category = _EXCLUDED_DISPLAY_TEXT
             /\ mainpc = "preview" =>
                   (item.is_excluded <=> table_values[i][4] = _EXCLUDED_DISPLAY_TEXT)
             /\ ~item.is_excluded => item.category = item.last_known_category
             /\ item.last_known_category \in CategoryKeySet
             /\ item.last_known_category = confirmed[item.original_index]
             /\ (lastEdit.entry = item.original_index /\ lastEdit.event \in CategoryKeySet)
                   => ~item.is_excluded /\ item.category = lastEdit.event
C22_Witness ==
    /\ mainpc = "preview"
    /\ sort_state.col # -1
    /\ lastEdit.event \in CategoryKeySet
    /\ lastEdit.before[4] = _EXCLUDED_DISPLAY_TEXT
    /\ \E i \in 1..Len(rich_data) :
          /\ rich_data[i].original_index = lastEdit.entry
          /\ rich_data[i].category # PlannedCategory(lastEdit.entry)

\* C23: when a plan made by sort() is committed in the preview window
\* without a reassignment, an exclusion or a sort, the finalized plan is the
\* plan the window was given: the same pairs in the same order.
C23_UneditedCommitIsIdentity ==
    /\ \A k \in CategoryKeySet : KeyOfFolder(CategoriesGet(k, "Other")) = k
    /\ (mainpc = "loop" /\ ~final_plan.none /\ edits = 0 /\ previewOf # 0) =>
          /\ original_plan = an[previewOf].sorting_plan
          /\ final_plan.pairs = original_plan
C23_Witness ==
    /\ mainpc = "loop"
    /\ ~final_plan.none
    /\ edits = 0
    /\ tgt_dir = <<"D", "T">>
    /\ Len(final_plan.pairs) = 3
    /\ \E i, j \in 1..3 : final_plan.pairs[i].dst # final_plan.pairs[j].dst

\* the destinations of a plan
Destinations(plan) == {plan[i].dst : i \in 1..Len(plan)}

\* what the preview returns for entry i of its plan when the entry was
\* reassigned to key k
ReassignedPair(i, k) ==
    FinalPlan(<<[RichItem(fpath, i - 1, original_plan[i]) EXCEPT !.category = k]>>,
              original_plan)[1]

\* C24: every destination of a plan made by sort() and of a finalized plan
\* of the preview window is the target root joined with the folder of one
\* of the categories, so apply_sort moves a file only into a category
\* folder, which planning has made.
C24_DestinationsAreCategoryFolders ==
    /\ [](/\ \A r \in Runs : Destinations(an[r].sorting_plan) \subseteq CategoryDirs(tgt_dir)
          /\ Destinations(sorting_plan.entries) \subseteq CategoryDirs(tgt_dir)
          /\ Destinations(final_plan.pairs) \subseteq CategoryDirs(tgt_dir)
          /\ \A i \in 1..Len(original_plan), k \in CategoryKeySet :
                ReassignedPair(i, k).dst \in CategoryDirs(tgt_dir)
          /\ \A a \in Runs : Destinations(ap[a].sorting_plan) \subseteq CategoryDirs(tgt_dir) \cap dirs)
    /\ [][\A f \in Files : fpath'[f] # fpath[f] =>
             /\ fpath'[f].dir \in CategoryDirs(tgt_dir) \cap dirs
             /\ fpath'[f].stem = fpath[f].stem
             /\ fpath'[f].ext = fpath[f].ext]_vars
C24_Witness ==
    \E a \in Runs :
        /\ ap[a].pc = "done"
        /\ ap[a].failed = {}
        /\ Len(ap[a].sorting_plan) = 3
        /\ \A i \in 1..3 : \E f \in Files : /\ fpath[f].dir = ap[a].sorting_plan[i].dst
                                            /\ InitialPath[f] = ap[a].sorting_plan[i].src
        /\ Cardinality(Destinations(ap[a].sorting_plan)) = 2

\* the loop takes a progress notification from the queue
ProgressHandled ==
    /\ queue # <<>>
    /\ Head(queue).ev = "-PROGRESS-"
    /\ queue' = Tail(queue)

\* C25: a log-only notification (done = -1 and total = -1) leaves the value
\* of the progress bar as it is; a notification with numeric progress sets
\* it to a value from 0 to 100.
C25_LogOnlyKeepsBar ==
    [][ProgressHandled =>
          IF Head(queue).done = -1 /\ Head(queue).total = -1
          THEN bar'.value = bar.value
          ELSE bar'.value \in 0..100]_vars

====
